---- MODULE Spec2Model ----
(***************************************************************************)
(* Retrieval-Augmented Memory Engine of reelmemoryai: the ingestion job    *)
(* queue (services/queue.ts), the vector store adapter (lib/pinecone.ts),  *)
(* the chunk builder (services/vector-processing.ts), the retrieval        *)
(* pipeline (services/search.ts) and the embedding client                  *)
(* (services/embeddings.ts).                                               *)
(*                                                                         *)
(* Every `await` of the source is a scheduling point: an action below is   *)
(* the synchronous code between two awaits.  External calls (vector store, *)
(* embedding provider, language model, video analysis, messaging relay)    *)
(* answer with a nondeterministic outcome.                                 *)
(***************************************************************************)
EXTENDS Integers, Sequences, FiniteSets, TLC

(***************************************************************************)
(* Bounds of the model.                                                    *)
(***************************************************************************)
MaxCalls == 2          \* enqueueVideoProcessing calls in one behaviour
MaxTime == 7           \* the clock stops advancing here
RETRY_DELAY == 2       \* queue.ts:24 is 5000 ms; here in clock ticks
EmbedCallers == 3      \* generateEmbedding calls in one behaviour
maxRequestsPerMinute == 2  \* embeddings.ts:27 is 150
coolDownPeriod == 3    \* embeddings.ts:29 is 60000 ms; here in clock ticks
retryDelay == 1        \* embeddings.ts:23 is 1000 ms; here in clock ticks
MaxScenes == 3         \* scenes in the visual content of one analysis
MaxResults == 6        \* aggregated results handed to reRankResults
MaxMatches == 3        \* matches handed to aggregateVideoChunks
GetCallers == 4        \* QueueService.getInstance calls in one behaviour

(***************************************************************************)
(* Program constants.                                                      *)
(***************************************************************************)
MAX_ATTEMPTS == 3
maxRetries == 3
BATCH_SIZE == 100
VisualBudget == 35000

Users == {"u1", "u2"}

\* A URL is a sequence of characters, so that trimming is computed.
Urls == { <<"a">>, <<" ", "a">>, <<"b">> }

Whitespace == {" "}

RECURSIVE TrimStart(_)
TrimStart(s) ==
  IF s # <<>> /\ Head(s) \in Whitespace THEN TrimStart(Tail(s)) ELSE s

RECURSIVE TrimEnd(_)
TrimEnd(s) ==
  IF s # <<>> /\ s[Len(s)] \in Whitespace
    THEN TrimEnd(SubSeq(s, 1, Len(s) - 1)) ELSE s

\* String.prototype.trim
Trim(s) == TrimEnd(TrimStart(s))

Min(a, b) == IF a <= b THEN a ELSE b

(***************************************************************************)
(* Chunk builder: one scene is its timestamp and the length of its JSON.   *)
(***************************************************************************)
\* The number of visual sub-chunks the analysis of a video comes to: the video
\* at "b" is a long one, of 98 scenes of more than half the budget each, which
\* with the audio, topics and primary records makes 101 records, one more
\* than a batch; the video at "a" has no visual content.
VisualChunkCount(videoUrl) == IF Trim(videoUrl) = <<"b">> THEN 98 ELSE 0

RECURSIVE SplitVisual(_, _, _, _)
SplitVisual(scenes, visualChunks, currentChunk, currentSize) ==
  IF scenes = <<>>
    THEN IF Len(currentChunk) > 0 THEN Append(visualChunks, currentChunk)
                                  ELSE visualChunks
    ELSE LET scene == Head(scenes) IN
      IF currentSize + scene.len > VisualBudget
        THEN SplitVisual(Tail(scenes),
                         IF Len(currentChunk) > 0
                           THEN Append(visualChunks, currentChunk)
                           ELSE visualChunks,
                         <<scene>>, scene.len)
        ELSE SplitVisual(Tail(scenes), visualChunks,
                         Append(currentChunk, scene), currentSize + scene.len)

\* A variant of VisualChunks: the push after the loop is missing.
VisualChunksNoLastPush(visualContent) ==
  LET chunks == SplitVisual(visualContent, <<>>, <<>>, 0)
  IN SubSeq(chunks, 1, Len(chunks) - 1)

VisualChunks(visualContent) == SplitVisual(visualContent, <<>>, <<>>, 0)

\* JSON.stringify(chunk).length: the brackets, the scenes, the commas.
SerializedSize(chunk) ==
  2 + (IF Len(chunk) = 0 THEN 0 ELSE Len(chunk) - 1)
    + (LET RECURSIVE Sum(_)
           Sum(c) == IF c = <<>> THEN 0 ELSE Head(c).len + Sum(Tail(c))
       IN Sum(chunk))

IdleChunker == [pc |-> "idle", visualContent |-> <<>>, visualChunks |-> <<>>]

\* The records of one ingestion, in the order storeVectors pushes them:
\* the visual sub-records, the audio record, the topics record, the primary.
AllVectors(videoId, videoUrl, k) ==
  [i \in 1..(k + 3) |->
     [videoId |-> videoId,
      videoUrl |-> videoUrl,
      kind |-> IF i <= k THEN "visual"
               ELSE IF i = k + 1 THEN "audio"
               ELSE IF i = k + 2 THEN "topics" ELSE "main",
      seq |-> IF i <= k THEN i ELSE 1]]

SeqRange(s) == { s[i] : i \in DOMAIN s }

(***************************************************************************)
(* State.                                                                  *)
(***************************************************************************)
VARIABLES
  jobs,        \* QueueService.jobs, in Map insertion order
  processing,  \* QueueService.processing
  drains,      \* the processJobs activations, by the call that started them
  calls,       \* the enqueueVideoProcessing calls
  store,       \* the vector store: namespace -> set of records
  lastCall,    \* the vector-store call answered in the last step, if any
  drainLookupFailed,  \* a lookup of the drain loop has failed (history)
  now,         \* Date.now()
  search,      \* one RAGEnhancedSearch.search call
  embed,       \* the EmbeddingService counters and its generateEmbedding calls
  chunker,     \* one run of the visual-content splitting of storeVectors
  singleton    \* the statics of QueueService and the getInstance calls

queueVars == <<jobs, processing, drains, calls, drainLookupFailed>>

vars == <<jobs, processing, drains, calls, store, lastCall, drainLookupFailed,
          now, search, embed, chunker, singleton>>

NoJob == 0

IdleDrain == [pc |-> "idle", job |-> NoJob, nVisual |-> 0, done |-> 0]

NewCall == [pc |-> "new", userId |-> "u1", videoUrl |-> <<"a">>]

NoCall == [op |-> "none", site |-> "none", job |-> NoJob, ns |-> "u1",
           by |-> "u1", ok |-> TRUE, result |-> FALSE]

\* A variant of UpsertNamespace: one namespace for every user.
UpsertNamespaceShared(userId) == "u1"

\* index.namespace(userId) in upsertUserData and in isVideoAlreadyProcessed
UpsertNamespace(userId) == userId

ExistsNamespace(userId) == userId

\* A variant of ExistsMatches: the filter takes the URL as submitted.
ExistsMatchesNoTrim(st, userId, videoUrl) ==
  { r \in st[ExistsNamespace(userId)] : r.videoUrl = videoUrl }

\* The records the metadata filter { videoUrl: cleanUrl } matches.
ExistsMatches(st, userId, videoUrl) ==
  { r \in st[ExistsNamespace(userId)] : r.videoUrl = Trim(videoUrl) }

\* A variant of IsVideoAlreadyProcessed: a failed lookup answers true.
IsVideoAlreadyProcessedFailClosed(st, userId, videoUrl, lookupOk) ==
  IF lookupOk THEN ExistsMatches(st, userId, videoUrl) # {} ELSE TRUE

\* isVideoAlreadyProcessed: the catch block answers false.
IsVideoAlreadyProcessed(st, userId, videoUrl, lookupOk) ==
  IF lookupOk THEN ExistsMatches(st, userId, videoUrl) # {} ELSE FALSE

ExistsCall(site, id, userId, isProcessed, lookupOk) ==
  [op |-> "query", site |-> site, job |-> id, ns |-> ExistsNamespace(userId),
   by |-> userId, ok |-> lookupOk, result |-> isProcessed]

HasJob(id) == \E i \in DOMAIN jobs : jobs[i].id = id

JobIndex(id) == CHOOSE i \in DOMAIN jobs : jobs[i].id = id

\* this.jobs.delete(jobId)
JobsDelete(js, id) == SelectSeq(js, LAMBDA j : j.id # id)

\* A retrieval stage that was not queried.
NotRun == [status |-> "notRun", matches |-> <<>>]

NoEnhanced ==
  [originalQuery |-> <<>>, searchText |-> <<>>, searchTerms |-> <<>>,
   visualElements |-> <<>>, temporalContext |-> {}, topics |-> <<>>]

IdleSearch ==
  [pc |-> "idle", userId |-> "u1", query |-> <<>>, topK |-> 1, scoring |-> 1,
   enhanced |-> NoEnhanced, filters |-> {},
   stages |-> [i \in 1..3 |-> NotRun], catchStage |-> NotRun,
   retrieved |-> <<>>, result |-> <<>>, error |-> "none"]

\* QueueService before the first getInstance call: instancePromise is null
\* and instance is undefined (0).  `created` counts the constructor calls and
\* `initialized` the initialize() calls; `building` is the instance of the
\* pending initialisation.
IdleSingleton ==
  [instancePromise |-> "null", instance |-> 0, building |-> 0,
   created |-> 0, initialized |-> 0,
   callers |-> [c \in 1..GetCallers |->
                  [pc |-> "idle", calledWhile |-> "null", got |-> 0]]]

\* The EmbeddingService after its construction, with no call made yet.
\* `admitted` counts, per clock value, the requests let through to the provider.
IdleEmbed ==
  [requestCount |-> 0, lastRequestTime |-> 1,
   admitted |-> [t \in 1..(MaxTime + 1) |-> 0],
   callers |-> [c \in 1..EmbedCallers |->
                  [pc |-> "idle", attempt |-> 0, wakeAt |-> 0]]]

QInit ==
  /\ jobs = <<>>
  /\ processing = FALSE
  /\ drains = [c \in 1..MaxCalls |-> IdleDrain]
  /\ calls = [c \in 1..MaxCalls |-> NewCall]
  /\ store = [u \in Users |-> {}]
  /\ lastCall = NoCall
  /\ drainLookupFailed = FALSE
  /\ now = 1
  /\ search = IdleSearch
  /\ embed = IdleEmbed
  /\ chunker = IdleChunker
  /\ singleton = IdleSingleton

\* A variant of LoopHead: `this.processing = true` is missing.
LoopHeadFlagUnset(js, t) ==
  IF Len(js) = 0
    THEN [processing |-> FALSE, drain |-> IdleDrain]
    ELSE [processing |-> FALSE,
          drain |-> [IdleDrain EXCEPT !.pc = "exists", !.job = js[1].id]]

\* A variant of LoopHead: the attempt starts without the wait for the retry.
LoopHeadNoWait(js, t) ==
  IF Len(js) = 0
    THEN [processing |-> FALSE, drain |-> IdleDrain]
    ELSE [processing |-> TRUE,
          drain |-> [IdleDrain EXCEPT !.pc = "exists", !.job = js[1].id]]

\* A variant of LoopHead: the next job is the one inserted last.
LoopHeadLast(js, t) ==
  IF Len(js) = 0
    THEN [processing |-> FALSE, drain |-> IdleDrain]
    ELSE LET job == js[Len(js)] IN
      IF job.lastAttempt # 0 /\ t - job.lastAttempt < RETRY_DELAY
        THEN [processing |-> TRUE,
              drain |-> [IdleDrain EXCEPT !.pc = "retryWait", !.job = job.id]]
        ELSE [processing |-> TRUE,
              drain |-> [IdleDrain EXCEPT !.pc = "exists", !.job = job.id]]

\* The head of the while loop of processJobs, run on the queue js at time t,
\* up to its first await; leaving the loop runs the finally block.
LoopHead(js, t) ==
  IF Len(js) = 0
    THEN [processing |-> FALSE, drain |-> IdleDrain]
    ELSE LET job == js[1] IN
      IF job.lastAttempt # 0 /\ t - job.lastAttempt < RETRY_DELAY
        THEN [processing |-> TRUE,
              drain |-> [IdleDrain EXCEPT !.pc = "retryWait", !.job = job.id]]
        ELSE [processing |-> TRUE,
              drain |-> [IdleDrain EXCEPT !.pc = "exists", !.job = job.id]]

\* processJobs() called while this.processing = p: the re-entrancy guard, and
\* the loop up to its first await.
ProcessJobs(p, js, t) ==
  IF p THEN [processing |-> p, drain |-> IdleDrain] ELSE LoopHead(js, t)

\* `if (!this.processing) this.processJobs()` of enqueueVideoProcessing
StartProcessing(p, js, t) ==
  IF ~p THEN ProcessJobs(p, js, t) ELSE [processing |-> p, drain |-> IdleDrain]

(***************************************************************************)
(* enqueueVideoProcessing                                                  *)
(***************************************************************************)

\* A caller submits (userId, videoUrl); the call runs up to
\* `await isVideoAlreadyProcessed(userId, videoUrl)`.
EnqueueStart(c) ==
  /\ calls[c].pc = "new"
  /\ \A d \in 1..(c - 1) : calls[d].pc # "new"
  /\ \E u \in Users, url \in Urls :
       \* users are interchangeable: the first caller is "u1"
       /\ c = 1 => u = "u1"
       /\ calls' = [calls EXCEPT ![c] = [pc |-> "exists", userId |-> u,
                                      videoUrl |-> url]]
  /\ UNCHANGED <<jobs, processing, drains, store, now>>
  /\ lastCall' = NoCall
  /\ UNCHANGED <<drainLookupFailed, search, embed, chunker, singleton>>

NewJob(c, userId, videoUrl) ==
  [id |-> c, userId |-> userId, videoUrl |-> videoUrl,
   attempts |-> 0, maxAttempts |-> MAX_ATTEMPTS, lastAttempt |-> 0]

\* The lookup answers.  Already processed: return 'Video already processed'.
\* Otherwise create the job, add it to the queue, start processJobs when none
\* is running, and go on to `await sendMessage(userId, VIDEO_PROCESSING)`.
EnqueueExists(c) ==
  /\ calls[c].pc = "exists"
  /\ \E lookupOk \in BOOLEAN :
       LET call == calls[c]
           isProcessed == IsVideoAlreadyProcessed(store, call.userId,
                                                  call.videoUrl, lookupOk)
           js == Append(jobs, NewJob(c, call.userId, call.videoUrl))
           started == StartProcessing(processing, js, now)
       IN /\ lastCall' = ExistsCall("enqueue", c, call.userId, isProcessed, lookupOk)
          /\ IF isProcessed
               THEN /\ calls' = [calls EXCEPT ![c].pc = "alreadyProcessed"]
                    /\ UNCHANGED <<jobs, processing, drains>>
               ELSE /\ calls' = [calls EXCEPT ![c].pc = "ack"]
                    /\ jobs' = js
                    /\ processing' = started.processing
                    /\ drains' = [drains EXCEPT ![c] = started.drain]
  /\ UNCHANGED <<store, now, drainLookupFailed, search, embed, chunker, singleton>>

\* The acknowledgement message was sent (return jobId), or sending it threw.
EnqueueAck(c) ==
  /\ calls[c].pc = "ack"
  /\ \E sent \in BOOLEAN :
       calls' = [calls EXCEPT ![c].pc = IF sent THEN "returned" ELSE "threw"]
  /\ UNCHANGED <<jobs, processing, drains, store, now>>
  /\ lastCall' = NoCall
  /\ UNCHANGED <<drainLookupFailed, search, embed, chunker, singleton>>

(***************************************************************************)
(* processJobs, activation d                                               *)
(***************************************************************************)

Active(d) == drains[d].pc # "idle"

CurrentJob(d) == jobs[JobIndex(drains[d].job)]

\* Go round the while loop on the queue js.
Continue(d, js) ==
  LET n == LoopHead(js, now) IN
  /\ jobs' = js
  /\ processing' = n.processing
  /\ drains' = [drains EXCEPT ![d] = n.drain]

\* The catch block of processJobs, up to its await or the next iteration.
CatchError(d) ==
  LET i == JobIndex(drains[d].job)
      job == [jobs[i] EXCEPT !.attempts = @ + 1, !.lastAttempt = now]
      js == [jobs EXCEPT ![i] = job]
  IN IF job.attempts >= job.maxAttempts
       THEN /\ jobs' = js
            /\ drains' = [drains EXCEPT ![d] = [IdleDrain EXCEPT !.pc = "notify",
                                                                 !.job = job.id]]
            /\ UNCHANGED processing
       ELSE Continue(d, js)

\* The setTimeout of the retry delay fires.
DrainRetryTimer(d) ==
  /\ drains[d].pc = "retryWait"
  /\ HasJob(drains[d].job)
  /\ now >= CurrentJob(d).lastAttempt + RETRY_DELAY
  /\ drains' = [drains EXCEPT ![d].pc = "exists"]
  /\ UNCHANGED <<jobs, processing, calls, store, now>>
  /\ lastCall' = NoCall
  /\ UNCHANGED <<drainLookupFailed, search, embed, chunker, singleton>>

\* A variant of DrainExists: the attempt is made whatever the lookup answers.
DrainExistsNoDrop(d) ==
  /\ drains[d].pc = "exists"
  /\ HasJob(drains[d].job)
  /\ \E lookupOk \in BOOLEAN :
       LET job == jobs[JobIndex(drains[d].job)]
           isProcessed == IsVideoAlreadyProcessed(store, job.userId,
                                                  job.videoUrl, lookupOk)
       IN /\ lastCall' = ExistsCall("drain", job.id, job.userId, isProcessed, lookupOk)
          /\ drainLookupFailed' = (drainLookupFailed \/ ~lookupOk)
          /\ drains' = [drains EXCEPT ![d].pc = "analyze"]
          /\ UNCHANGED <<jobs, processing>>
  /\ UNCHANGED <<calls, store, now, search, embed, chunker, singleton>>

\* The lookup before the attempt answers: delete the job and continue, or call
\* analyzeVideoFromUrl.
DrainExists(d) ==
  /\ drains[d].pc = "exists"
  /\ HasJob(drains[d].job)
  /\ \E lookupOk \in BOOLEAN :
       LET job == CurrentJob(d)
           isProcessed == IsVideoAlreadyProcessed(store, job.userId,
                                                  job.videoUrl, lookupOk)
       IN /\ lastCall' = ExistsCall("drain", job.id, job.userId, isProcessed, lookupOk)
          /\ drainLookupFailed' = (drainLookupFailed \/ ~lookupOk)
          /\ IF isProcessed
               THEN Continue(d, JobsDelete(jobs, job.id))
               ELSE /\ drains' = [drains EXCEPT ![d].pc = "analyze"]
                    /\ UNCHANGED <<jobs, processing>>
  /\ UNCHANGED <<calls, store, now, search, embed, chunker, singleton>>

\* analyzeVideoFromUrl: the download and the video analysis answer.
DrainAnalyze(d) ==
  /\ drains[d].pc = "analyze"
  /\ HasJob(drains[d].job)
  /\ \/ CatchError(d)
     \/ /\ drains' = [drains EXCEPT ![d].pc = "embedMain", ![d].done = 0,
                                    ![d].nVisual =
                                       VisualChunkCount(CurrentJob(d).videoUrl)]
        /\ UNCHANGED <<jobs, processing>>
  /\ UNCHANGED <<calls, store, now>>
  /\ lastCall' = NoCall
  /\ UNCHANGED <<drainLookupFailed, search, embed, chunker, singleton>>

\* generateVector answers for the comprehensive text (processVideoAnalysis);
\* storeVectors then starts with the visual sub-chunks, if there are any.
DrainEmbedMain(d) ==
  /\ drains[d].pc = "embedMain"
  /\ HasJob(drains[d].job)
  /\ \/ CatchError(d)
     \/ /\ drains' = [drains EXCEPT ![d].pc = IF drains[d].nVisual > 0
                                               THEN "embedVisual"
                                               ELSE "embedAudio"]
        /\ UNCHANGED <<jobs, processing>>
  /\ UNCHANGED <<calls, store, now>>
  /\ lastCall' = NoCall
  /\ UNCHANGED <<drainLookupFailed, search, embed, chunker, singleton>>

\* The generateVector calls of the loop over the visual sub-chunks answer:
\* all with a vector, or one with an error.  The loop reads and writes
\* nothing but its own locals, so its iterations are taken in one step.
DrainEmbedVisual(d) ==
  /\ drains[d].pc = "embedVisual"
  /\ HasJob(drains[d].job)
  /\ \/ CatchError(d)
     \/ /\ drains' = [drains EXCEPT ![d].pc = "embedAudio",
                                    ![d].done = drains[d].nVisual]
        /\ UNCHANGED <<jobs, processing>>
  /\ UNCHANGED <<calls, store, now>>
  /\ lastCall' = NoCall
  /\ UNCHANGED <<drainLookupFailed, search, embed, chunker, singleton>>

\* generateVector answers for the audio text.
DrainEmbedAudio(d) ==
  /\ drains[d].pc = "embedAudio"
  /\ HasJob(drains[d].job)
  /\ \/ CatchError(d)
     \/ /\ drains' = [drains EXCEPT ![d].pc = "embedTopics"]
        /\ UNCHANGED <<jobs, processing>>
  /\ UNCHANGED <<calls, store, now>>
  /\ lastCall' = NoCall
  /\ UNCHANGED <<drainLookupFailed, search, embed, chunker, singleton>>

\* A variant of DrainEmbedTopics: the records generated so far are written
\* before the topics text is embedded.
DrainEmbedTopicsAfterWrite(d) ==
  /\ drains[d].pc = "embedTopics"
  /\ HasJob(drains[d].job)
  /\ LET job == CurrentJob(d)
         written == [videoId |-> <<job.userId, job.id, job.attempts + 1>>,
                     videoUrl |-> Trim(job.videoUrl),
                     nVisual |-> drains[d].nVisual,
                     lo |-> 1, hi |-> drains[d].nVisual + 1]
     IN /\ store' = [store EXCEPT ![UpsertNamespace(job.userId)] = @ \cup {written}]
        /\ \/ CatchError(d)
           \/ /\ drains' = [drains EXCEPT ![d].pc = "upsert", ![d].done = 0]
              /\ UNCHANGED <<jobs, processing>>
  /\ UNCHANGED <<calls, now>>
  /\ lastCall' = NoCall
  /\ UNCHANGED <<drainLookupFailed, search, embed, chunker, singleton>>

\* generateVector answers for the topics text; the first batch is sent.
DrainEmbedTopics(d) ==
  /\ drains[d].pc = "embedTopics"
  /\ HasJob(drains[d].job)
  /\ \/ CatchError(d)
     \/ /\ drains' = [drains EXCEPT ![d].pc = "upsert", ![d].done = 0]
        /\ UNCHANGED <<jobs, processing>>
  /\ UNCHANGED <<calls, store, now>>
  /\ lastCall' = NoCall
  /\ UNCHANGED <<drainLookupFailed, search, embed, chunker, singleton>>

\* videoId is `${userId}_video_${Date.now()}`: one per attempt.
VideoId(job) == <<job.userId, job.id, job.attempts + 1>>

\* The batch of storeVectors at offset i, allVectors.slice(i, i + BATCH_SIZE).
\* The store keeps the consecutive records lo..hi of one ingestion as one run;
\* RunRecords gives the records a run stands for.
Batch(videoId, videoUrl, k, i) ==
  [videoId |-> videoId, videoUrl |-> Trim(videoUrl), nVisual |-> k,
   lo |-> i + 1, hi |-> Min(i + BATCH_SIZE, k + 3)]

RunRecords(run) ==
  { AllVectors(run.videoId, run.videoUrl, run.nVisual)[i] : i \in run.lo..run.hi }

\* namespaceIndex.upsert(records) on the store st
Upsert(st, userId, batch) ==
  [st EXCEPT ![UpsertNamespace(userId)] = @ \cup {batch}]

\* upsertUserData(userId, batch) answers for the batch at offset done.
DrainUpsert(d) ==
  /\ drains[d].pc = "upsert"
  /\ HasJob(drains[d].job)
  /\ LET job == CurrentJob(d)
         k == drains[d].nVisual
         batch == Batch(VideoId(job), job.videoUrl, k, drains[d].done)
     IN \E ok \in BOOLEAN :
        /\ lastCall' = [op |-> "upsert", site |-> "drain", job |-> job.id,
                        ns |-> UpsertNamespace(job.userId), by |-> job.userId,
                        ok |-> ok, result |-> FALSE]
        /\ IF ~ok
             THEN /\ CatchError(d)
                  /\ UNCHANGED store
             ELSE /\ store' = Upsert(store, job.userId, batch)
                  /\ IF drains[d].done + BATCH_SIZE < k + 3
                       THEN /\ drains' = [drains EXCEPT ![d].done = @ + BATCH_SIZE]
                            /\ UNCHANGED <<jobs, processing>>
                       ELSE Continue(d, JobsDelete(jobs, job.id))
  /\ UNCHANGED <<calls, now, drainLookupFailed, search, embed, chunker, singleton>>

\* sendMessage(userId, VIDEO_PROCESSING_ERROR) answers: the job is deleted, or
\* the error leaves processJobs through its finally block.
DrainNotify(d) ==
  /\ drains[d].pc = "notify"
  /\ \/ Continue(d, JobsDelete(jobs, drains[d].job))
     \/ /\ processing' = FALSE
        /\ drains' = [drains EXCEPT ![d] = IdleDrain]
        /\ UNCHANGED jobs
  /\ UNCHANGED <<calls, store, now>>
  /\ lastCall' = NoCall
  /\ UNCHANGED <<drainLookupFailed, search, embed, chunker, singleton>>

\* Time passes.  Only differences to a job's lastAttempt are ever read, and
\* only up to RETRY_DELAY, so the clock need not run when no delay is pending.
Tick ==
  /\ now < MaxTime
  /\ \E i \in DOMAIN jobs :
       jobs[i].lastAttempt # 0 /\ now < jobs[i].lastAttempt + RETRY_DELAY
  /\ now' = now + 1
  /\ UNCHANGED <<jobs, processing, drains, calls, store>>
  /\ lastCall' = NoCall
  /\ UNCHANGED <<drainLookupFailed, search, embed, chunker, singleton>>

QNext ==
  \/ \E c \in 1..MaxCalls : EnqueueStart(c)
  \/ \E c \in 1..MaxCalls : EnqueueExists(c)
  \/ \E c \in 1..MaxCalls : EnqueueAck(c)
  \/ \E d \in 1..MaxCalls : DrainRetryTimer(d)
  \/ \E d \in 1..MaxCalls : DrainExists(d)
  \/ \E d \in 1..MaxCalls : DrainAnalyze(d)
  \/ \E d \in 1..MaxCalls : DrainEmbedMain(d)
  \/ \E d \in 1..MaxCalls : DrainEmbedVisual(d)
  \/ \E d \in 1..MaxCalls : DrainEmbedAudio(d)
  \/ \E d \in 1..MaxCalls : DrainEmbedTopics(d)
  \/ \E d \in 1..MaxCalls : DrainUpsert(d)
  \/ \E d \in 1..MaxCalls : DrainNotify(d)
  \/ Tick

Spec == QInit /\ [][QNext]_vars

\* An external call that was made answers, a timer that was set fires and
\* time passes; nobody has to call enqueueVideoProcessing.
Fairness ==
  /\ \A c \in 1..MaxCalls : WF_vars(EnqueueExists(c) \/ EnqueueAck(c))
  /\ \A d \in 1..MaxCalls :
       WF_vars(DrainRetryTimer(d) \/ DrainExists(d) \/ DrainAnalyze(d)
                 \/ DrainEmbedMain(d) \/ DrainEmbedVisual(d)
                 \/ DrainEmbedAudio(d) \/ DrainEmbedTopics(d)
                 \/ DrainUpsert(d) \/ DrainNotify(d))
  /\ WF_vars(Tick)

LiveSpec == QInit /\ [][QNext]_vars /\ Fairness

(***************************************************************************)
(* RAGEnhancedSearch                                                       *)
(***************************************************************************)

MaxTopK == 2           \* the topK values of a search call are 1..MaxTopK

RerankLimit == 5

Queries == { <<"A">>, <<"A", " ", "b">>, <<" ", "b">> }

Lower(ch) == IF ch = "A" THEN "a" ELSE ch

ToLowerCase(s) == [i \in DOMAIN s |-> Lower(s[i])]

\* String.prototype.split(/\s+/): a run of whitespace separates two items,
\* so a string that starts or ends with whitespace gives an empty item.
RECURSIVE SplitFrom(_, _, _, _)
SplitFrom(s, i, cur, out) ==
  IF i > Len(s) THEN Append(out, cur)
  ELSE IF s[i] \in Whitespace
    THEN IF i > 1 /\ s[i - 1] \in Whitespace
           THEN SplitFrom(s, i + 1, cur, out)
           ELSE SplitFrom(s, i + 1, <<>>, Append(out, cur))
    ELSE SplitFrom(s, i + 1, Append(cur, s[i]), out)

SplitWhitespace(s) == SplitFrom(s, 1, <<>>, <<>>)

\* String.prototype.includes
Includes(text, term) ==
  \E i \in 0..(Len(text) - Len(term)) : SubSeq(text, i + 1, i + Len(term)) = term

\* The indices idx of keys in ascending order of key, equal keys in index
\* order (Array.prototype.sort is stable).
RECURSIVE StableOrder(_, _)
StableOrder(keys, idx) ==
  IF idx = {} THEN <<>>
  ELSE LET m == CHOOSE i \in idx :
                  \A j \in idx : keys[i] < keys[j] \/ (keys[i] = keys[j] /\ i <= j)
       IN <<m>> \o StableOrder(keys, idx \ {m})

SortByKeys(s, keys) ==
  LET o == StableOrder(keys, DOMAIN s) IN [n \in DOMAIN s |-> s[o[n]]]

\* The fallback of enhanceQuery.
FallbackQuery(query) ==
  [originalQuery |-> query, searchText |-> query,
   searchTerms |-> SplitWhitespace(ToLowerCase(query)),
   visualElements |-> <<>>, temporalContext |-> {}, topics |-> <<>>]

NotArray == [isArray |-> FALSE, items |-> <<>>]

ArrayOf(items) == [isArray |-> TRUE, items |-> items]

\* What generateStructuredResponse can answer with.
ParsedResponses ==
  [searchText : { <<>>, <<"a">> },
   searchTerms : { NotArray, ArrayOf(<<>>), ArrayOf(<< <<"a">> >>) },
   visualElements : { NotArray, ArrayOf(<< <<"v">> >>) },
   topics : { NotArray, ArrayOf(<< <<"t">> >>) }]

\* The `return` of the inner try block of enhanceQuery.
EnhancedFromParsed(query, parsed) ==
  [originalQuery |-> query,
   searchText |-> IF parsed.searchText # <<>> THEN parsed.searchText ELSE query,
   searchTerms |-> IF parsed.searchTerms.isArray
                     THEN parsed.searchTerms.items
                     ELSE SplitWhitespace(ToLowerCase(query)),
   visualElements |-> IF parsed.visualElements.isArray
                        THEN parsed.visualElements.items ELSE <<>>,
   temporalContext |-> {},
   topics |-> IF parsed.topics.isArray THEN parsed.topics.items ELSE <<>>]

\* buildSearchContext: the filter conditions, named by the field they test.
BuildSearchContext(enhancedQuery) ==
  { c \in {"topics", "visualElements", "searchTerms"} :
      Len(enhancedQuery[c]) > 0 }

\* index.namespace(userId) in multiStageRetrieval
SearchNamespace(userId) == userId

\* The content of the namespace a retrieval stage queries.
SearchCandidates(st, userId) == st[SearchNamespace(userId)]

SearchRecords(st, userId) ==
  UNION { RunRecords(run) : run \in SearchCandidates(st, userId) }

\* The title, summary and topics the video analysis gave for a video.
Title(videoUrl) == <<"a", " ", "b">>

Summary(videoUrl) == <<"b">>

Topics(videoUrl) == << [type |-> "object", name |-> <<"t">>] >>

KindRank(kind) ==
  CASE kind = "main" -> 3 [] kind = "audio" -> 2 [] kind = "topics" -> 1
    [] OTHER -> 0

Scorings == 1..3

\* The similarity the vector store gives a record for the query embedding,
\* in tenths: three ways the records can compare.
Similarity(sc, r) ==
  CASE sc = 1 -> 2 * KindRank(r.kind) + r.videoId[2]
    [] sc = 2 -> 2 * (3 - KindRank(r.kind)) + 3 - r.videoId[2]
    [] OTHER -> 5

RankKey(sc, r) ==
  1000 * Similarity(sc, r) + 100 * r.videoId[2] + 10 * KindRank(r.kind) + r.seq

\* The audioContent of the audio record of a video, and the '{}' every other
\* record carries.  music and soundEffects are kept as sets.
AudioContentOf(videoUrl) ==
  [speech |-> <<"s">>, music |-> { <<"m">> }, soundEffects |-> { <<"e">> }]

NoAudio == [speech |-> <<>>, music |-> {}, soundEffects |-> {}]

\* The scenes of the visual sub-chunk seq of a video.
VisualContentOf(videoUrl, seq) ==
  << [timestamp |-> <<"a">>, scene |-> <<"a">>, keyElements |-> << <<"v">> >>] >>

\* A record as a match of a query.
Match(sc, r) ==
  [id |-> <<r.videoId, r.kind, r.seq>>,
   score |-> Similarity(sc, r),
   metadata |-> [videoId |-> r.videoId, videoUrl |-> r.videoUrl,
                 sequenceNumber |-> r.seq, contentType |-> r.kind,
                 title |-> Title(r.videoUrl),
                 summary |-> IF r.kind = "main" THEN Summary(r.videoUrl) ELSE <<>>,
                 topics |-> IF r.kind = "topics" THEN Topics(r.videoUrl) ELSE <<>>,
                 visualContent |-> IF r.kind = "visual"
                                     THEN VisualContentOf(r.videoUrl, r.seq)
                                     ELSE <<>>,
                 audioContent |-> IF r.kind = "audio"
                                    THEN AudioContentOf(r.videoUrl)
                                    ELSE NoAudio]]

RECURSIVE Ranked(_, _)
Ranked(recs, sc) ==
  IF recs = {} THEN <<>>
  ELSE LET m == CHOOSE r \in recs : \A x \in recs : RankKey(sc, r) >= RankKey(sc, x)
       IN <<Match(sc, m)>> \o Ranked(recs \ {m}, sc)

\* namespaceIndex.query({ topK: topK * 4, filter }): the best topK * 4 of the
\* records `keep` that pass the filter.
QueryMatches(keep, sc, topK) ==
  LET ranked == Ranked(keep, sc) IN SubSeq(ranked, 1, Min(4 * topK, Len(ranked)))

\* The videoIds of the matches, in the order the Map videoGroups got them.
FirstIndices(matches) ==
  SelectSeq([i \in DOMAIN matches |-> i],
            LAMBDA i : \A j \in 1..(i - 1) :
                         matches[j].metadata.videoId # matches[i].metadata.videoId)

RECURSIVE SumSeq(_)
SumSeq(s) == IF s = <<>> THEN 0 ELSE s[1] + SumSeq(Tail(s))

MaxOf(S) == CHOOSE x \in S : \A y \in S : x >= y

\* The Map key of a visual item: `${item.timestamp}-${item.scene}`.
VisualKey(item) == item.timestamp \o <<"-">> \o item.scene

\* The [key, value] pairs the reduce over the chunks collects.
RECURSIVE VisualEntries(_)
VisualEntries(chunks) ==
  IF chunks = <<>> THEN <<>>
  ELSE LET chunk == Head(chunks)
           content == chunk.metadata.visualContent
       IN [j \in DOMAIN content |->
             [key |-> VisualKey(content[j]),
              value |-> [timestamp |-> content[j].timestamp,
                         scene |-> content[j].scene,
                         keyElements |-> content[j].keyElements,
                         sequenceNumber |-> chunk.metadata.sequenceNumber]]]
          \o VisualEntries(Tail(chunks))

\* Array.from(new Map(entries).values()): a key stands where it was first
\* set and holds the value it was last set to.
MapValues(entries) ==
  LET firsts == SelectSeq([i \in DOMAIN entries |-> i],
                          LAMBDA i : \A j \in 1..(i - 1) :
                                       entries[j].key # entries[i].key)
      last(k) == CHOOSE i \in DOMAIN entries :
                   /\ entries[i].key = k
                   /\ \A j \in (i + 1)..Len(entries) : entries[j].key # k
  IN [n \in DOMAIN firsts |-> entries[last(entries[firsts[n]].key)].value]

\* The reduce over the chunks that builds metadata.audioContent.  Every
\* record carries an audioContent that parses to an object, so every chunk
\* takes the branch `if (content)`: speechMap is a new Map per chunk, and
\* the speech of the result is the lines of that Map alone.
RECURSIVE AudioMerge(_, _)
AudioMerge(chunks, acc) ==
  IF chunks = <<>> THEN acc
  ELSE LET content == Head(chunks).metadata.audioContent
           speechMap == IF content.speech # <<>> THEN << content.speech >> ELSE <<>>
       IN AudioMerge(Tail(chunks),
            [speech |-> speechMap,
             music |-> acc.music \cup content.music,
             soundEffects |-> acc.soundEffects \cup content.soundEffects])

\* The initial value of that reduce; speech is the list of lines joined.
EmptyAudio == [speech |-> <<>>, music |-> {}, soundEffects |-> {}]

\* The [key, value] pairs of relevantChunks.  The key is
\* `${timestamp}-${sequenceNumber}`; all records of a videoId carry the
\* timestamp of their ingestion, so within a group the key is one per
\* sequenceNumber.
RelevantEntries(chunks) ==
  [i \in DOMAIN chunks |->
     [key |-> chunks[i].metadata.sequenceNumber,
      value |-> [id |-> chunks[i].id, score |-> chunks[i].score,
                 sequenceNumber |-> chunks[i].metadata.sequenceNumber]]]

\* relevantChunks: the values of the Map, best score first.
RelevantChunks(chunks) ==
  LET values == MapValues(RelevantEntries(chunks))
  IN SortByKeys(values, [i \in DOMAIN values |-> 0 - values[i].score])

\* One entry of aggregatedResults.  avgScore is scoreSum / chunkCount.
AggregateGroup(videoId, matches) ==
  LET group == SelectSeq(matches, LAMBDA m : m.metadata.videoId = videoId)
      chunks == SortByKeys(group,
                        [i \in DOMAIN group |-> group[i].metadata.sequenceNumber])
      overviewChunk ==
        IF \E i \in DOMAIN chunks : chunks[i].metadata.sequenceNumber = 1
          THEN chunks[CHOOSE i \in DOMAIN chunks :
                        /\ chunks[i].metadata.sequenceNumber = 1
                        /\ \A j \in 1..(i - 1) :
                             chunks[j].metadata.sequenceNumber # 1]
          ELSE chunks[1]
      scores == [i \in DOMAIN chunks |-> chunks[i].score]
  IN [id |-> videoId,
      score |-> MaxOf(SeqRange(scores)),
      scoreSum |-> SumSeq(scores),
      chunkCount |-> Len(chunks),
      chunkIds |-> [i \in DOMAIN chunks |-> chunks[i].id],
      metadata |-> [videoId |-> videoId,
                    videoUrl |-> overviewChunk.metadata.videoUrl,
                    title |-> overviewChunk.metadata.title,
                    summary |-> overviewChunk.metadata.summary,
                    visualContent |-> MapValues(VisualEntries(chunks)),
                    audioContent |-> AudioMerge(chunks, EmptyAudio),
                    relevantChunks |-> RelevantChunks(chunks),
                    topics |-> IF \E i \in DOMAIN chunks :
                                    chunks[i].metadata.topics # <<>>
                                 THEN Topics(overviewChunk.metadata.videoUrl)
                                 ELSE <<>>]]

\* A variant of AggregateVideoChunks: the matches of the best video only.
AggregateBestOnly(matches, topK) ==
  IF matches = <<>> THEN <<>>
  ELSE << AggregateGroup(matches[1].metadata.videoId, matches) >>

\* A variant of AggregateVideoChunks: the sorted results, not cut to topK.
AggregateNoSlice(matches, topK) ==
  LET firsts == FirstIndices(matches)
      aggregatedResults ==
        [n \in DOMAIN firsts |->
           AggregateGroup(matches[firsts[n]].metadata.videoId, matches)]
  IN SortByKeys(aggregatedResults,
                [n \in DOMAIN aggregatedResults |-> 0 - aggregatedResults[n].score])

\* aggregateVideoChunks(matches, topK)
AggregateVideoChunks(matches, topK) ==
  LET firsts == FirstIndices(matches)
      aggregatedResults ==
        [n \in DOMAIN firsts |->
           AggregateGroup(matches[firsts[n]].metadata.videoId, matches)]
      sorted == SortByKeys(aggregatedResults,
                        [n \in DOMAIN aggregatedResults |->
                           0 - aggregatedResults[n].score])
  IN SubSeq(sorted, 1, Min(topK, Len(sorted)))

\* calculateHybridScore, in hundredths of the base score's unit.  An
\* aggregated result has no metadata.keywords and no metadata.keyElements,
\* and its metadata.topics holds objects, which no topic string equals.
KeywordMatches(match, enhancedQuery) ==
  Cardinality({ i \in DOMAIN enhancedQuery.searchTerms :
    \/ Includes(ToLowerCase(match.metadata.title), enhancedQuery.searchTerms[i])
    \/ Includes(ToLowerCase(match.metadata.summary), enhancedQuery.searchTerms[i]) })

VisualMatches(match, enhancedQuery) ==
  Cardinality({ i \in DOMAIN enhancedQuery.visualElements :
    /\ "keyElements" \in DOMAIN match.metadata
    /\ \E j \in DOMAIN match.metadata.keyElements :
         match.metadata.keyElements[j] = enhancedQuery.visualElements[i] })

TopicMatches(match, enhancedQuery) ==
  Cardinality({ i \in DOMAIN enhancedQuery.topics :
    \E j \in DOMAIN match.metadata.topics :
      /\ match.metadata.topics[j].type = "string"
      /\ match.metadata.topics[j].name = enhancedQuery.topics[i] })

CalculateHybridScore(match, enhancedQuery) ==
  match.score * (100 + 20 * KeywordMatches(match, enhancedQuery)
                     + 15 * VisualMatches(match, enhancedQuery)
                     + 10 * TopicMatches(match, enhancedQuery))

\* A variant of ReRankResults: the slice is missing.
ReRankResultsNoSlice(results, enhancedQuery) ==
  LET scored == [n \in DOMAIN results |->
                   [results[n] EXCEPT
                      !.score = CalculateHybridScore(results[n], enhancedQuery)]]
  IN SortByKeys(scored, [n \in DOMAIN scored |-> 0 - scored[n].score])

\* reRankResults(results, enhancedQuery)
ReRankResults(results, enhancedQuery) ==
  LET scored == [n \in DOMAIN results |->
                   [results[n] EXCEPT
                      !.score = CalculateHybridScore(results[n], enhancedQuery)]]
      sorted == SortByKeys(scored, [n \in DOMAIN scored |-> 0 - scored[n].score])
  IN SubSeq(sorted, 1, Min(RerankLimit, Len(sorted)))

\* The vector stores a search starts from: nothing ingested; one video of
\* "u1"; a second ingestion of the same URL for "u1" and a video of "u2";
\* one video of "u1" whose analysis has visual content.
SearchStores ==
  LET empty == [u \in Users |-> {}]
      one == Upsert(empty, "u1", Batch(<<"u1", 1, 1>>, <<"a">>, 0, 0))
      two == Upsert(Upsert(one, "u1", Batch(<<"u1", 2, 1>>, <<" ", "a">>, 0, 0)),
                    "u2", Batch(<<"u2", 1, 1>>, <<"a">>, 0, 0))
      \* a video with one visual sub-record
      seen == Upsert(empty, "u1", Batch(<<"u1", 1, 1>>, <<"a">>, 1, 0))
  IN {empty, one, two, seen}

SInit ==
  /\ jobs = <<>>
  /\ processing = FALSE
  /\ drains = [c \in 1..MaxCalls |-> IdleDrain]
  /\ calls = [c \in 1..MaxCalls |-> NewCall]
  /\ store \in SearchStores
  /\ lastCall = NoCall
  /\ drainLookupFailed = FALSE
  /\ now = 1
  /\ search = IdleSearch
  /\ embed = IdleEmbed
  /\ chunker = IdleChunker
  /\ singleton = IdleSingleton

\* search() is called and runs up to the first await of enhanceQuery: the
\* prompt template is read, or readFileSync throws.
SearchCall ==
  /\ search.pc = "idle"
  /\ \E u \in Users, q \in Queries, k \in 1..MaxTopK, sc \in Scorings,
        readable \in BOOLEAN :
       search' = [IF readable
                    THEN [IdleSearch EXCEPT !.pc = "enhance"]
                    ELSE [IdleSearch EXCEPT !.pc = "threw", !.error = "enhance"]
                  EXCEPT !.userId = u, !.query = q, !.topK = k, !.scoring = sc]
  /\ lastCall' = NoCall
  /\ UNCHANGED <<queueVars, store, now, embed, chunker, singleton>>

\* generateStructuredResponse answers, or throws.
SearchEnhance ==
  /\ search.pc = "enhance"
  /\ \/ \E parsed \in ParsedResponses :
          search' = [search EXCEPT !.pc = "embed",
                       !.enhanced = EnhancedFromParsed(search.query, parsed)]
     \/ search' = [search EXCEPT !.pc = "embed",
                     !.enhanced = FallbackQuery(search.query)]
  /\ lastCall' = NoCall
  /\ UNCHANGED <<queueVars, store, now, embed, chunker, singleton>>

\* A variant of SearchEmbed: the filtered query of stage 1 is made even when
\* the search context has no filter.
SearchEmbedAlwaysStage1 ==
  /\ search.pc = "embed"
  /\ \/ search' = [search EXCEPT !.pc = "threw", !.error = "embedding"]
     \/ search' = [search EXCEPT !.filters = BuildSearchContext(search.enhanced),
                                 !.pc = "stage1"]
  /\ lastCall' = NoCall
  /\ UNCHANGED <<queueVars, store, now, embed, chunker, singleton>>

\* generateEmbedding answers: the search context is built and
\* multiStageRetrieval runs up to its first query, or the call throws.
SearchEmbed ==
  /\ search.pc = "embed"
  /\ \/ search' = [search EXCEPT !.pc = "threw", !.error = "embedding"]
     \/ LET filters == BuildSearchContext(search.enhanced)
        IN search' = [search EXCEPT !.filters = filters,
                        !.pc = IF filters # {} THEN "stage1" ELSE "stage2"]
  /\ lastCall' = NoCall
  /\ UNCHANGED <<queueVars, store, now, embed, chunker, singleton>>

SearchQueryCall(ok, matches) ==
  [op |-> "query", site |-> "search", job |-> NoJob,
   ns |-> SearchNamespace(search.userId), by |-> search.userId,
   ok |-> ok, result |-> matches # <<>>]

\* multiStageRetrieval returns aggregateVideoChunks(matches, topK); search()
\* re-ranks and returns.
SearchReturn(s, matches) ==
  LET results == AggregateVideoChunks(matches, s.topK)
  IN [s EXCEPT !.pc = "returned", !.retrieved = results,
               !.result = ReRankResults(results, s.enhanced)]

\* The query of stage n (1: context filters, 2: title and summary exist)
\* answers with the records `keep` passing its filter, or throws.
SearchFiltered(n, next) ==
  /\ \/ /\ search' = [search EXCEPT !.pc = "catch",
                        !.stages[n] = [status |-> "error", matches |-> <<>>]]
        /\ lastCall' = SearchQueryCall(FALSE, <<>>)
     \/ \E keep \in SUBSET SearchRecords(store, search.userId) :
          LET matches == QueryMatches(keep, search.scoring, search.topK)
              s == [search EXCEPT !.stages[n] = [status |-> "ok",
                                                 matches |-> matches]]
          IN /\ search' = IF matches # <<>> THEN SearchReturn(s, matches)
                                            ELSE [s EXCEPT !.pc = next]
             /\ lastCall' = SearchQueryCall(TRUE, matches)
  /\ UNCHANGED <<queueVars, store, now, embed, chunker, singleton>>

SearchStage1 == search.pc = "stage1" /\ SearchFiltered(1, "stage2")

SearchStage2 == search.pc = "stage2" /\ SearchFiltered(2, "stage3")

\* The pure vector query answers, or throws into the catch block.
SearchStage3 ==
  /\ search.pc = "stage3"
  /\ \/ /\ search' = [search EXCEPT !.pc = "catch",
                        !.stages[3] = [status |-> "error", matches |-> <<>>]]
        /\ lastCall' = SearchQueryCall(FALSE, <<>>)
     \/ LET matches == QueryMatches(SearchRecords(store, search.userId),
                                    search.scoring, search.topK)
            s == [search EXCEPT !.stages[3] = [status |-> "ok",
                                               matches |-> matches]]
        IN /\ search' = SearchReturn(s, matches)
           /\ lastCall' = SearchQueryCall(TRUE, matches)
  /\ UNCHANGED <<queueVars, store, now, embed, chunker, singleton>>

\* The pure vector query of the catch block answers, or throws to the caller.
SearchCatch ==
  /\ search.pc = "catch"
  /\ \/ /\ search' = [search EXCEPT !.pc = "threw", !.error = "query",
                        !.catchStage = [status |-> "error", matches |-> <<>>]]
        /\ lastCall' = SearchQueryCall(FALSE, <<>>)
     \/ LET matches == QueryMatches(SearchRecords(store, search.userId),
                                    search.scoring, search.topK)
            s == [search EXCEPT !.catchStage = [status |-> "ok",
                                                matches |-> matches]]
        IN /\ search' = SearchReturn(s, matches)
           /\ lastCall' = SearchQueryCall(TRUE, matches)
  /\ UNCHANGED <<queueVars, store, now, embed, chunker, singleton>>

SNext ==
  \/ SearchCall
  \/ SearchEnhance
  \/ SearchEmbed
  \/ SearchStage1
  \/ SearchStage2
  \/ SearchStage3
  \/ SearchCatch

SearchSpec == SInit /\ [][SNext]_vars

(***************************************************************************)
(* EmbeddingService                                                        *)
(***************************************************************************)

EInit ==
  /\ jobs = <<>>
  /\ processing = FALSE
  /\ drains = [c \in 1..MaxCalls |-> IdleDrain]
  /\ calls = [c \in 1..MaxCalls |-> NewCall]
  /\ store = [u \in Users |-> {}]
  /\ lastCall = NoCall
  /\ drainLookupFailed = FALSE
  /\ now = 1
  /\ search = IdleSearch
  /\ embed = IdleEmbed
  /\ chunker = IdleChunker
  /\ singleton = IdleSingleton

\* requestCount++ at time t: the request goes to the provider.
Admit(e, c, t) ==
  [e EXCEPT !.requestCount = @ + 1,
            !.admitted[t] = @ + 1,
            !.callers[c].pc = "request"]

\* handleRateLimit, called by caller c at time t, up to its await or its end.
HandleRateLimit(e, c, t) ==
  LET timeWindow == t - e.lastRequestTime
      fresh == IF timeWindow >= coolDownPeriod
                 THEN [e EXCEPT !.requestCount = 0, !.lastRequestTime = t]
                 ELSE e
  IN IF fresh.requestCount >= maxRequestsPerMinute
       THEN [fresh EXCEPT !.callers[c].pc = "blocked",
                          !.callers[c].wakeAt = t + (coolDownPeriod - timeWindow)]
       ELSE Admit(fresh, c, t)

\* generateEmbedding(text) is called and awaits checkTokenLimit(text).
EmbedCall(c) ==
  /\ embed.callers[c].pc = "idle"
  /\ embed' = [embed EXCEPT !.callers[c].pc = "tokenCheck"]
  /\ lastCall' = NoCall
  /\ UNCHANGED <<queueVars, store, now, search, chunker, singleton>>

\* checkTokenLimit throws (the text is over maxTokensPerRequest), or the
\* first attempt starts with handleRateLimit.
EmbedTokenCheck(c) ==
  /\ embed.callers[c].pc = "tokenCheck"
  /\ \/ embed' = [embed EXCEPT !.callers[c].pc = "failed"]
     \/ embed' = HandleRateLimit([embed EXCEPT !.callers[c].attempt = 1], c, now)
  /\ lastCall' = NoCall
  /\ UNCHANGED <<queueVars, store, now, search, chunker, singleton>>

\* The setTimeout of a caller waiting at the ceiling fires.
EmbedWake(c) ==
  /\ embed.callers[c].pc = "blocked"
  /\ now >= embed.callers[c].wakeAt
  /\ embed' = Admit([embed EXCEPT !.requestCount = 0, !.lastRequestTime = now],
                    c, now)
  /\ lastCall' = NoCall
  /\ UNCHANGED <<queueVars, store, now, search, chunker, singleton>>

\* A variant of EmbedResponse: the wait is retryDelay after every failure.
EmbedResponseFlatDelay(c) ==
  /\ embed.callers[c].pc = "request"
  /\ LET attempt == embed.callers[c].attempt IN
     \/ embed' = [embed EXCEPT !.callers[c].pc = "done"]
     \/ embed' = IF attempt < maxRetries
                   THEN [embed EXCEPT !.callers[c].pc = "retryWait",
                                      !.callers[c].wakeAt = now + retryDelay]
                   ELSE [embed EXCEPT !.callers[c].pc = "failed"]
  /\ lastCall' = NoCall
  /\ UNCHANGED <<queueVars, store, now, search, chunker, singleton>>

\* openai.embeddings.create answers with the vector, or throws: wait
\* retryDelay * attempt, or give up after maxRetries attempts.
EmbedResponse(c) ==
  /\ embed.callers[c].pc = "request"
  /\ LET attempt == embed.callers[c].attempt IN
     \/ embed' = [embed EXCEPT !.callers[c].pc = "done"]
     \/ embed' = IF attempt < maxRetries
                   THEN [embed EXCEPT !.callers[c].pc = "retryWait",
                                      !.callers[c].wakeAt = now + retryDelay * attempt]
                   ELSE [embed EXCEPT !.callers[c].pc = "failed"]
  /\ lastCall' = NoCall
  /\ UNCHANGED <<queueVars, store, now, search, chunker, singleton>>

\* The setTimeout of the retry delay fires: the next attempt starts.
EmbedRetry(c) ==
  /\ embed.callers[c].pc = "retryWait"
  /\ now >= embed.callers[c].wakeAt
  /\ embed' = HandleRateLimit([embed EXCEPT !.callers[c].attempt = @ + 1], c, now)
  /\ lastCall' = NoCall
  /\ UNCHANGED <<queueVars, store, now, search, chunker, singleton>>

\* Time passes.
EmbedTick ==
  /\ now < MaxTime
  /\ now' = now + 1
  /\ lastCall' = NoCall
  /\ UNCHANGED <<queueVars, store, search, embed, chunker, singleton>>

ENext ==
  \/ \E c \in 1..EmbedCallers : EmbedCall(c)
  \/ \E c \in 1..EmbedCallers : EmbedTokenCheck(c)
  \/ \E c \in 1..EmbedCallers : EmbedWake(c)
  \/ \E c \in 1..EmbedCallers : EmbedResponse(c)
  \/ \E c \in 1..EmbedCallers : EmbedRetry(c)
  \/ EmbedTick

EmbedSpec == EInit /\ [][ENext]_vars

(***************************************************************************)
(* storeVectors: splitting the visual content                              *)
(***************************************************************************)

\* The JSON lengths of a scene: small, about half the budget, about the budget.
SceneLens ==
  {1, VisualBudget \div 2, VisualBudget \div 2 + 1,
   VisualBudget - 1, VisualBudget, VisualBudget + 1}

Scenes == [timestamp : 1..2, len : SceneLens]

VisualContents ==
  UNION { [1..n -> Scenes] : n \in 0..MaxScenes }

CInit ==
  /\ jobs = <<>>
  /\ processing = FALSE
  /\ drains = [c \in 1..MaxCalls |-> IdleDrain]
  /\ calls = [c \in 1..MaxCalls |-> NewCall]
  /\ store = [u \in Users |-> {}]
  /\ lastCall = NoCall
  /\ drainLookupFailed = FALSE
  /\ now = 1
  /\ search = IdleSearch
  /\ embed = IdleEmbed
  /\ chunker = IdleChunker
  /\ singleton = IdleSingleton

\* storeVectors is called with the visual content of an analysis.
ChunkCall ==
  /\ chunker.pc = "idle"
  /\ \E visualContent \in VisualContents :
       chunker' = [chunker EXCEPT !.pc = "split", !.visualContent = visualContent]
  /\ UNCHANGED <<queueVars, store, lastCall, now, search, embed, singleton>>

\* The loop over the scenes and the push after it.
ChunkSplit ==
  /\ chunker.pc = "split"
  /\ chunker' = [chunker EXCEPT !.pc = "done",
                   !.visualChunks = VisualChunks(chunker.visualContent)]
  /\ UNCHANGED <<queueVars, store, lastCall, now, search, embed, singleton>>

CNext ==
  \/ ChunkCall
  \/ ChunkSplit

ChunkSpec == CInit /\ [][CNext]_vars

(***************************************************************************)
(* reRankResults on the lists aggregateVideoChunks can hand it             *)
(***************************************************************************)

\* An aggregated result of one matched chunk, with its score and title.
AggregatedResult(n, score, title) ==
  [id |-> <<"u1", n, 1>>, score |-> score, scoreSum |-> score, chunkCount |-> 1,
   chunkIds |-> << <<<<"u1", n, 1>>, "main", 1>> >>,
   metadata |-> [videoId |-> <<"u1", n, 1>>, videoUrl |-> <<"a">>,
                 title |-> title, summary |-> <<>>, visualContent |-> <<>>,
                 audioContent |-> EmptyAudio,
                 relevantChunks |-> << [id |-> <<<<"u1", n, 1>>, "main", 1>>,
                                        score |-> score, sequenceNumber |-> 1] >>,
                 topics |-> <<>>]]

ResultTitles == { <<"A", " ", "b">>, <<"c">> }

\* Lists of results with distinct ids, as aggregateVideoChunks returns them.
ResultLists ==
  UNION { { [n \in 1..len |-> AggregatedResult(n, f[n][1], f[n][2])] :
              f \in [1..len -> (1..2) \X ResultTitles] } : len \in 0..MaxResults }

RInit ==
  /\ jobs = <<>>
  /\ processing = FALSE
  /\ drains = [c \in 1..MaxCalls |-> IdleDrain]
  /\ calls = [c \in 1..MaxCalls |-> NewCall]
  /\ store = [u \in Users |-> {}]
  /\ lastCall = NoCall
  /\ drainLookupFailed = FALSE
  /\ now = 1
  /\ embed = IdleEmbed
  /\ chunker = IdleChunker
  /\ singleton = IdleSingleton
  /\ \E q \in Queries, results \in ResultLists, k \in 1..MaxResults :
       /\ Len(results) <= k
       /\ search = [IdleSearch EXCEPT !.pc = "rerank", !.query = q, !.topK = k,
                      !.enhanced = FallbackQuery(q), !.retrieved = results]

\* search(): reRankResults(results, enhancedQuery), and the return.
SearchReRank ==
  /\ search.pc = "rerank"
  /\ search' = [search EXCEPT !.pc = "returned",
                  !.result = ReRankResults(search.retrieved, search.enhanced)]
  /\ UNCHANGED <<queueVars, store, lastCall, now, embed, chunker, singleton>>

RNext == SearchReRank

RerankSpec == RInit /\ [][RNext]_vars

(***************************************************************************)
(* aggregateVideoChunks on the matches of one vector query.                *)
(***************************************************************************)

\* Scenes of a video analysis: timestamps and scene descriptions are free
\* text, here over the letters "a" and "-".
VisualItem(timestamp, scene) ==
  [timestamp |-> timestamp, scene |-> scene, keyElements |-> << <<"v">> >>]

VisualItems ==
  { VisualItem(<<"a">>, <<"a">>),
    VisualItem(<<"a">>, <<"a", "-", "a">>),
    VisualItem(<<"a", "-", "a">>, <<"a">>) }

\* The visualContent of a visual sub-chunk: one scene, or two distinct ones.
SubChunkContents ==
  { <<x>> : x \in VisualItems }
    \cup { << VisualItem(<<"a">>, <<"a">>), VisualItem(<<"a">>, <<"a", "-", "a">>) >>,
           << VisualItem(<<"a">>, <<"a", "-", "a">>),
              VisualItem(<<"a", "-", "a">>, <<"a">>) >> }

\* A match of a query: the main chunk or a visual sub-chunk of video n.
ChunkMatch(n, kind, seq, score, content) ==
  [id |-> << <<"u1", n, 1>>, kind, seq >>,
   score |-> score,
   metadata |-> [videoId |-> <<"u1", n, 1>>, videoUrl |-> <<"a">>,
                 sequenceNumber |-> seq, contentType |-> kind,
                 title |-> Title(<<"a">>),
                 summary |-> IF kind = "main" THEN Summary(<<"a">>) ELSE <<>>,
                 topics |-> <<>>,
                 visualContent |-> content,
                 audioContent |-> NoAudio]]

ChunkMatches ==
  { ChunkMatch(n, "main", 1, score, <<>>) : n \in 1..2, score \in 1..2 }
    \cup { ChunkMatch(x[1], "visual", x[2], x[3], x[4]) :
             x \in (1..2) \X (1..2) \X (1..2) \X SubChunkContents }

\* What a vector query answers: distinct records, best score first.
MatchLists ==
  UNION { { ms \in [1..len -> ChunkMatches] :
              /\ \A i, j \in 1..len : i < j => ms[i].id # ms[j].id
              /\ \A i \in 1..(len - 1) : ms[i].score >= ms[i + 1].score } :
          len \in 0..MaxMatches }

AInit ==
  /\ jobs = <<>>
  /\ processing = FALSE
  /\ drains = [c \in 1..MaxCalls |-> IdleDrain]
  /\ calls = [c \in 1..MaxCalls |-> NewCall]
  /\ store = [u \in Users |-> {}]
  /\ lastCall = NoCall
  /\ drainLookupFailed = FALSE
  /\ now = 1
  /\ embed = IdleEmbed
  /\ chunker = IdleChunker
  /\ singleton = IdleSingleton
  /\ \E q \in Queries, matches \in MatchLists, k \in 1..MaxTopK :
       search = [IdleSearch EXCEPT !.pc = "aggregate", !.query = q, !.topK = k,
                   !.enhanced = FallbackQuery(q),
                   !.stages[3] = [status |-> "ok", matches |-> matches]]

\* multiStageRetrieval returns aggregateVideoChunks(matches, topK) and
\* search() re-ranks it.
SearchAggregate ==
  /\ search.pc = "aggregate"
  /\ search' = SearchReturn(search, search.stages[3].matches)
  /\ UNCHANGED <<queueVars, store, lastCall, now, embed, chunker, singleton>>

ANext == SearchAggregate

AggregateSpec == AInit /\ [][ANext]_vars

(***************************************************************************)
(* QueueService.getInstance                                                *)
(***************************************************************************)

GInit ==
  /\ jobs = <<>>
  /\ processing = FALSE
  /\ drains = [c \in 1..MaxCalls |-> IdleDrain]
  /\ calls = [c \in 1..MaxCalls |-> NewCall]
  /\ store = [u \in Users |-> {}]
  /\ lastCall = NoCall
  /\ drainLookupFailed = FALSE
  /\ now = 1
  /\ search = IdleSearch
  /\ embed = IdleEmbed
  /\ chunker = IdleChunker
  /\ singleton = IdleSingleton

\* The async function that builds the instance, up to `await
\* instance.initialize()`: QueueService.instance is undefined, or it returns.
StartBuild(g) ==
  IF g.instance = 0
    THEN [g EXCEPT !.instancePromise = "pending",
                   !.created = @ + 1,
                   !.building = g.created + 1,
                   !.initialized = @ + 1]
    ELSE [g EXCEPT !.instancePromise = "resolved"]

\* A variant of GetInstanceBody: the test of instancePromise is missing.
GetInstanceNoPromise(g) == StartBuild(g)

\* getInstance() up to its return of instancePromise.
GetInstanceBody(g) ==
  IF g.instancePromise = "null" THEN StartBuild(g) ELSE g

\* A caller calls getInstance() and awaits the promise it returns.
GetInstance(c) ==
  /\ singleton.callers[c].pc = "idle"
  /\ singleton' = [GetInstanceBody(singleton) EXCEPT
                     !.callers[c].pc = "awaiting",
                     !.callers[c].calledWhile = singleton.instancePromise]
  /\ UNCHANGED <<queueVars, store, lastCall, now, search, embed, chunker>>

\* initialize() ends: QueueService.instance is set and the promise resolves
\* with it, or initialize() throws and the promise rejects.
InitializeDone ==
  /\ singleton.instancePromise = "pending"
  /\ \/ singleton' = [singleton EXCEPT !.instancePromise = "resolved",
                                       !.instance = singleton.building]
     \/ singleton' = [singleton EXCEPT !.instancePromise = "rejected"]
  /\ UNCHANGED <<queueVars, store, lastCall, now, search, embed, chunker>>

\* The await of a caller ends with the promise.
GetInstanceReturn(c) ==
  /\ singleton.callers[c].pc = "awaiting"
  /\ \/ /\ singleton.instancePromise = "resolved"
        /\ singleton' = [singleton EXCEPT !.callers[c].pc = "returned",
                                          !.callers[c].got = singleton.instance]
     \/ /\ singleton.instancePromise = "rejected"
        /\ singleton' = [singleton EXCEPT !.callers[c].pc = "threw"]
  /\ UNCHANGED <<queueVars, store, lastCall, now, search, embed, chunker>>

GNext ==
  \/ \E c \in 1..GetCallers : GetInstance(c)
  \/ InitializeDone
  \/ \E c \in 1..GetCallers : GetInstanceReturn(c)

SingletonSpec == GInit /\ [][GNext]_vars

(***************************************************************************)
(* Properties of the ingestion queue and the vector store adapter.         *)
(***************************************************************************)

TrimmedUrls == { Trim(url) : url \in Urls }

\* The ingestions (videoIds) of a URL that have records in a namespace.
VideoIdsOf(st, ns, url) == { r.videoId : r \in { x \in st[ns] : x.videoUrl = url } }

CallDone(c) == calls[c].pc \in {"alreadyProcessed", "returned", "threw"}

Quiescent ==
  /\ jobs = <<>>
  /\ \A d \in 1..MaxCalls : ~Active(d)
  /\ \A c \in 1..MaxCalls : calls[c].pc = "new" \/ CallDone(c)

SameSubmission(c, e) ==
  /\ c # e
  /\ calls[c].pc # "new" /\ calls[e].pc # "new"
  /\ calls[c].userId = calls[e].userId
  /\ Trim(calls[c].videoUrl) = Trim(calls[e].videoUrl)

\* C1 as stated: once everything submitted has been worked off, a URL that
\* was submitted twice or more for a user has the records of one ingestion
\* only in the user's namespace.
C1_IdempotentIngestion ==
  Quiescent =>
    \A c, e \in 1..MaxCalls :
      SameSubmission(c, e) =>
        Cardinality(VideoIdsOf(store, calls[c].userId, Trim(calls[c].videoUrl))) <= 1

\* C1 amended: as long as no ExistsByUrl lookup of the drain loop has failed,
\* no namespace ever holds records of more than one ingestion of a URL.
C1_IdempotentUnlessLookupFails ==
  ~drainLookupFailed =>
    \A ns \in Users, url \in TrimmedUrls :
      Cardinality(VideoIdsOf(store, ns, url)) <= 1

\* Two submissions of one URL (one with surrounding whitespace) for one user,
\* the second made while the first was in flight so that both became jobs,
\* have been worked off and left one ingestion.
C1_Witness ==
  /\ Quiescent
  /\ ~drainLookupFailed
  /\ SameSubmission(1, 2)
  /\ calls[1].videoUrl # calls[2].videoUrl
  /\ calls[1].pc = "returned" /\ calls[2].pc = "returned"
  /\ Cardinality(VideoIdsOf(store, calls[1].userId, Trim(calls[1].videoUrl))) = 1

\* C2 as stated: no job is attempted more than maxAttempts times, and a job
\* that has failed leaves the queue without a successful attempt only when its
\* maxAttempts attempts are used up, by the step that sent its one failure
\* notification.
C2_RetryExhaustion ==
  [][ \A i \in DOMAIN jobs :
        LET job == jobs[i] IN
        /\ \A k \in DOMAIN jobs' :
             jobs'[k].id = job.id => jobs'[k].attempts <= job.maxAttempts
        /\ ( /\ job.attempts >= 1
             /\ store' = store
             /\ \A k \in DOMAIN jobs' : jobs'[k].id # job.id ) =>
             /\ job.attempts = job.maxAttempts
             /\ \E d \in 1..MaxCalls :
                  drains[d].pc = "notify" /\ drains[d].job = job.id ]_vars

\* Alternative contents of a namespace.
AltContents(ns) ==
  {{}} \cup { {Batch(<<ns, 0, 1>>, url, 0, 0)} : url \in Urls }

QueriesIsolated ==
  /\ lastCall.op # "none" => lastCall.ns = lastCall.by
  /\ \A u \in Users : \A n \in Users \ {u} : \A alt \in AltContents(n) :
       LET st2 == [store EXCEPT ![n] = alt] IN
       /\ SearchCandidates(st2, u) = SearchCandidates(store, u)
       /\ \A url \in Urls :
            IsVideoAlreadyProcessed(st2, u, url, TRUE)
              = IsVideoAlreadyProcessed(store, u, url, TRUE)

UpsertFrame ==
  \A u \in Users :
    store'[u] # store[u] =>
      /\ lastCall'.op = "upsert" /\ lastCall'.ok
      /\ \E i \in DOMAIN jobs : jobs[i].id = lastCall'.job /\ jobs[i].userId = u

\* C3: every vector-store call is made on the namespace of the user it is
\* made for; an upsert changes the namespace of the job's user and no other;
\* and what ExistsByUrl and the retrieval stages of user u can see does not
\* depend on the content of any other namespace.
C3_NamespaceIsolation == [][UpsertFrame]_vars /\ []QueriesIsolated

\* A record set was written for one user while the other user's namespace held
\* records of the same URL.
C3_Witness ==
  /\ lastCall.op = "upsert" /\ lastCall.ok
  /\ \E n \in Users \ {lastCall.by} :
       \E r \in store[n] : \E x \in store[lastCall.by] : r.videoUrl = x.videoUrl

\* C4: when the lookup of the drain loop answers true, the job is deleted and
\* the loop goes on to the next job: nothing is written, no attempt is made or
\* counted, nothing is notified.
C4_DuplicateInFlight ==
  [][ (lastCall'.op = "query" /\ lastCall'.site = "drain" /\ lastCall'.result) =>
        /\ HasJob(lastCall'.job)
        /\ jobs' = JobsDelete(jobs, lastCall'.job)
        /\ store' = store
        /\ \A d \in 1..MaxCalls :
             drains'[d].pc \in {"idle", "exists", "retryWait"}
             /\ drains'[d].job # lastCall'.job ]_vars

\* The lookup of the drain loop answered true for a job whose enqueue call
\* had added it to the queue, and the job is gone from the queue.
C4_Witness ==
  /\ lastCall.op = "query" /\ lastCall.site = "drain" /\ lastCall.result
  /\ \E c \in 1..MaxCalls :
       /\ c = lastCall.job
       /\ calls[c].pc \in {"ack", "returned", "threw"}
       /\ ~HasJob(c)

\* C5: at most one processJobs activation is past the guard, so at most one
\* job is being processed.
C5_SingleActiveDrain ==
  /\ Cardinality({ d \in 1..MaxCalls : Active(d) }) <= 1
  /\ (\E d \in 1..MaxCalls : Active(d)) => processing

\* An enqueue call added its job while the loop started by another call was
\* running, and started no second loop.
C5_Witness ==
  \E c, d \in 1..MaxCalls :
    /\ c # d
    /\ Active(d)
    /\ calls[c].pc = "ack" /\ HasJob(c) /\ ~Active(c)

\* C9: a failed lookup answers false: in enqueueVideoProcessing the job is
\* created and queued, in the drain loop the attempt is made.
C9_ExistsFailsOpen ==
  (lastCall.op = "query" /\ ~lastCall.ok) =>
    /\ ~lastCall.result
    /\ HasJob(lastCall.job)
    /\ lastCall.site = "enqueue" => calls[lastCall.job].pc = "ack"
    /\ lastCall.site = "drain" =>
         \E d \in 1..MaxCalls :
           drains[d].job = lastCall.job /\ drains[d].pc = "analyze"

\* The lookup of the drain loop failed although the namespace holds records
\* of the URL: the job is processed all the same.
C9_Witness ==
  /\ lastCall.op = "query" /\ ~lastCall.ok /\ lastCall.site = "drain"
  /\ \E i \in DOMAIN jobs :
       /\ jobs[i].id = lastCall.job
       /\ ExistsMatches(store, jobs[i].userId, jobs[i].videoUrl) # {}

\* C10 as stated: after a failed upsert none of the records of that attempt
\* is in the store: no job in the queue has records of a failed attempt.
C10_NoPartialUpsert ==
  \A i \in DOMAIN jobs :
    \A r \in store[UpsertNamespace(jobs[i].userId)] :
      r.videoId[2] = jobs[i].id => r.videoId[3] > jobs[i].attempts

\* The drain d is in an attempt on its job: between the lookup before the
\* attempt and the end of analyzeVideoFromUrl.
Attempting(d) ==
  drains[d].pc \in {"exists", "analyze", "embedMain", "embedVisual",
                    "embedAudio", "embedTopics", "upsert"}

\* C19: a retry attempt of a job starts no earlier than RETRY_DELAY after the
\* job's lastAttempt, and the first attempt of a job is not delayed: a drain
\* waits only for a job that failed before, and only while the delay runs.
C19_RetryDelay ==
  \A d \in 1..MaxCalls :
    /\ Attempting(d) /\ HasJob(drains[d].job) /\ CurrentJob(d).lastAttempt # 0 =>
         now >= CurrentJob(d).lastAttempt + RETRY_DELAY
    /\ drains[d].pc = "retryWait" =>
         /\ HasJob(drains[d].job)
         /\ CurrentJob(d).attempts >= 1
         /\ CurrentJob(d).lastAttempt # 0

\* The retry of a failed job is under way, started at the very end of the
\* delay.
C19_Witness ==
  \E d \in 1..MaxCalls :
    /\ drains[d].pc = "analyze"
    /\ HasJob(drains[d].job)
    /\ CurrentJob(d).attempts = 1
    /\ now = CurrentJob(d).lastAttempt + RETRY_DELAY

\* C20: jobs are drained one at a time in insertion order: every attempt,
\* and every wait for a retry, is on the earliest-inserted job still in the
\* queue, so no job is attempted while an earlier one is in the queue.
C20_FifoDraining ==
  \A d \in 1..MaxCalls :
    Active(d) =>
      /\ jobs # <<>>
      /\ drains[d].job = jobs[1].id
      /\ \A e \in 1..MaxCalls : Active(e) => e = d

\* The retry of the first job is under way while a second job, inserted
\* later and not yet attempted, waits behind it.
C20_Witness ==
  /\ Len(jobs) = 2
  /\ jobs[1].attempts >= 1
  /\ jobs[2].attempts = 0
  /\ \E d \in 1..MaxCalls : drains[d].pc = "analyze" /\ drains[d].job = jobs[1].id

\* The namespace of the user holds every record of one ingestion of the URL:
\* the visual sub-records, the audio record, the topics record, the primary.
FullyStored(st, userId, videoUrl) ==
  \E run \in st[UpsertNamespace(userId)] :
    /\ run.videoUrl = Trim(videoUrl)
    /\ \A i \in 1..(run.nVisual + 3) :
         \E part \in st[UpsertNamespace(userId)] :
           /\ part.videoId = run.videoId
           /\ part.lo <= i /\ i <= part.hi

\* The job leaves the queue in this step, and not after the notification of
\* its failure.
LeavesUnfailed(job) ==
  /\ \A i \in DOMAIN jobs' : jobs'[i].id # job.id
  /\ \A d \in 1..MaxCalls : drains[d].pc = "notify" => drains[d].job # job.id

\* C25: when a job leaves the queue because its processing succeeded or
\* because the lookup found its URL, the namespace of its user holds the
\* complete record set of one ingestion of the URL.
C25_CompletedFullyStored ==
  [][\A i \in DOMAIN jobs :
       LeavesUnfailed(jobs[i]) =>
         FullyStored(store', jobs[i].userId, jobs[i].videoUrl)]_vars

\* C26: whenever control is yielded, a non-empty queue has an active drain
\* loop: processing is true and one activation of processJobs is under way,
\* also after a failure notification that failed.
C26_NoStrandedJobs ==
  jobs # <<>> => (processing /\ \E d \in 1..MaxCalls : Active(d))

\* C27: a call of enqueueVideoProcessing that failed with an error added no
\* job: none of its job is in the queue, and none was processed.
C27_EnqueueErrorAtomicity ==
  \A c \in 1..MaxCalls :
    calls[c].pc = "threw" =>
      /\ ~HasJob(c)
      /\ \A d \in 1..MaxCalls : drains[d].job # c
      /\ \A u \in Users : \A run \in store[u] : run.videoId[2] # c

\* The drain d waits for an embedding of its attempt.
Embedding(d) ==
  drains[d].pc \in {"embedMain", "embedVisual", "embedAudio", "embedTopics"}

\* The records the current attempt of drain d has written.
AttemptRecords(d) ==
  { run \in store[UpsertNamespace(CurrentJob(d).userId)] :
      run.videoId = VideoId(CurrentJob(d)) }

\* C28: every embedding of an attempt is generated before its first upsert:
\* while an embedding is awaited the attempt has written nothing, the answer
\* to an embedding, a failure included, leaves the store unchanged, and the
\* store changes only in the upsert phase of an attempt.
C28_EmbeddingsPrecedeWrites ==
  [][/\ \A d \in 1..MaxCalls :
          Embedding(d) /\ HasJob(drains[d].job) =>
            /\ AttemptRecords(d) = {}
            /\ drains'[d] # drains[d] => store' = store
     /\ store' # store => \E d \in 1..MaxCalls : drains[d].pc = "upsert"]_vars

\* All embeddings of a video with visual sub-chunks are generated and the
\* first upsert is awaited: the attempt has written nothing yet.
C28_Witness ==
  \E d \in 1..MaxCalls :
    /\ drains[d].pc = "upsert"
    /\ drains[d].done = 0
    /\ drains[d].nVisual > 0
    /\ HasJob(drains[d].job)
    /\ AttemptRecords(d) = {}

\* The clock of the model has run out while a drain loop waits for a retry:
\* the delay can no longer end.
ClockOut ==
  /\ now = MaxTime
  /\ \E d \in 1..MaxCalls :
       /\ drains[d].pc = "retryWait"
       /\ HasJob(drains[d].job)
       /\ now < CurrentJob(d).lastAttempt + RETRY_DELAY

\* C21: with every external call answering, every job added to the queue is
\* removed from it in the end, and once the queue is empty the drain loop
\* ends with processing = false.
C21_QueueLiveness ==
  /\ \A j \in 1..MaxCalls : HasJob(j) ~> (~HasJob(j) \/ ClockOut)
  /\ (jobs = <<>>) ~> ((~processing /\ \A d \in 1..MaxCalls : ~Active(d)) \/ ClockOut)

(***************************************************************************)
(* Properties of the retrieval pipeline.                                   *)
(***************************************************************************)

\* The queries of one retrieval in the order they can be made: stage 1,
\* stage 2, stage 3, and the pure vector query of the catch block.
StageResults ==
  <<search.stages[1], search.stages[2], search.stages[3], search.catchStage>>

NonEmptyStages ==
  { n \in 1..4 : StageResults[n].status = "ok" /\ StageResults[n].matches # <<>> }

FirstNonEmpty == CHOOSE n \in NonEmptyStages : \A m \in NonEmptyStages : n <= m

MatchVideoIds(matches) == { matches[i].metadata.videoId : i \in DOMAIN matches }

\* C6 as stated: the result is built from the first stage that returned
\* matches, no later stage is queried, the result has no fewer entries than
\* that stage returned matches, and it is empty only if no stage returned one.
C6_FallbackMonotonicity ==
  search.pc = "returned" =>
    IF NonEmptyStages = {}
      THEN search.retrieved = <<>>
      ELSE LET matches == StageResults[FirstNonEmpty].matches IN
           /\ \A n \in (FirstNonEmpty + 1)..4 : StageResults[n].status = "notRun"
           /\ \A n \in DOMAIN search.retrieved :
                search.retrieved[n].id \in MatchVideoIds(matches)
           /\ Len(search.retrieved) >= Len(matches)

\* C6 amended: the result is the aggregation of the matches of the first
\* stage that returned any, no later stage is queried, and the result has one
\* entry per distinct video of those matches up to topK: it is empty only if
\* no stage returned a match.
C6_FallbackAggregated ==
  search.pc = "returned" =>
    IF NonEmptyStages = {}
      THEN search.retrieved = <<>>
      ELSE LET matches == StageResults[FirstNonEmpty].matches IN
           /\ \A n \in (FirstNonEmpty + 1)..4 : StageResults[n].status = "notRun"
           /\ \A n \in DOMAIN search.retrieved :
                /\ search.retrieved[n].id \in MatchVideoIds(matches)
                /\ SeqRange(search.retrieved[n].chunkIds) =
                     { matches[i].id : i \in
                         { j \in DOMAIN matches :
                             matches[j].metadata.videoId = search.retrieved[n].id } }
           /\ \A n, m \in DOMAIN search.retrieved :
                search.retrieved[n].id = search.retrieved[m].id => n = m
           /\ Len(search.retrieved) =
                Min(search.topK, Cardinality(MatchVideoIds(matches)))
           /\ search.retrieved # <<>>

\* Stage 1 returned nothing, stage 2 returned several chunks of two videos,
\* and the result has one entry for each video.
C6_Witness ==
  /\ search.pc = "returned"
  /\ search.stages[1].status = "ok" /\ search.stages[1].matches = <<>>
  /\ search.stages[2].status = "ok" /\ Len(search.stages[2].matches) > 2
  /\ search.stages[3].status = "notRun"
  /\ Len(search.retrieved) = 2

\* C7 as stated: enhanceQuery never fails, so no search ends with an error
\* of the enhancement: every search gets an enhanced query for its query.
C7_EnhancerFloor ==
  /\ search.error # "enhance"
  /\ search.pc \in {"embed", "stage1", "stage2", "stage3", "catch", "returned"} =>
       search.enhanced.originalQuery = search.query

\* The retrieval has made a query: it is past the embedding of the query.
Retrieving ==
  \/ search.pc \in {"stage1", "stage2", "stage3", "catch", "returned"}
  \/ search.pc = "threw" /\ search.error = "query"

\* Stage n returned zero matches.
ReturnedZero(n) ==
  search.stages[n].status = "ok" /\ search.stages[n].matches = <<>>

\* Stage n is queried: its query is in flight or has been answered.
Queried(n) ==
  \/ search.stages[n].status # "notRun"
  \/ search.pc = CASE n = 1 -> "stage1" [] n = 2 -> "stage2" [] OTHER -> "stage3"

\* The pure vector query of the catch block is in flight or was answered.
CatchQueried == search.catchStage.status # "notRun" \/ search.pc = "catch"

\* C16: if the pure vector query of stage 3 fails, the error propagates to
\* the caller: no result list is returned and no further vector-store query
\* is made for that retrieval.
C16_Stage3ErrorPropagates ==
  search.stages[3].status = "error" =>
    /\ search.pc # "returned"
    /\ search.result = <<>>
    /\ search.catchStage.status = "notRun"

\* C17 as stated: every retrieval starts with stage 1, stage 2 is queried
\* only after stage 1 returned zero matches, stage 3 only after stage 2
\* returned zero matches, and once a stage returned a match no later stage
\* is queried.
C17_StageOrdering ==
  /\ Retrieving => Queried(1)
  /\ Queried(2) => ReturnedZero(1)
  /\ Queried(3) => ReturnedZero(2)
  /\ \A n \in 1..3 :
       search.stages[n].status = "ok" /\ search.stages[n].matches # <<>> =>
         /\ search.pc = "returned"
         /\ \A m \in (n + 1)..3 : ~Queried(m)
         /\ ~CatchQueried

\* C17 amended: a retrieval whose search context has a filter starts with
\* stage 1, one without any filter starts with stage 2 and never queries
\* stage 1; stage 2 is queried only after stage 1 returned zero matches or
\* was left out, stage 3 only after stage 2 returned zero matches; once a
\* stage returned a match no later query is made; the pure vector query of
\* the catch block is made only after a query of a stage failed.
C17_StageOrderingWithFilters ==
  /\ Retrieving => (Queried(1) <=> search.filters # {})
  /\ Retrieving /\ search.filters = {} => Queried(2)
  /\ Queried(2) => ReturnedZero(1) \/ (search.filters = {} /\ ~Queried(1))
  /\ Queried(3) => ReturnedZero(2)
  /\ \A n \in 1..3 :
       search.stages[n].status = "ok" /\ search.stages[n].matches # <<>> =>
         /\ search.pc = "returned"
         /\ \A m \in (n + 1)..3 : ~Queried(m)
         /\ ~CatchQueried
  /\ CatchQueried => \E n \in 1..3 : search.stages[n].status = "error"

\* A retrieval without any filter: stage 1 was left out, stage 2 returned
\* nothing and stage 3 returned the matches of the result.
C17_Witness ==
  /\ search.pc = "returned"
  /\ search.filters = {}
  /\ search.stages[1].status = "notRun"
  /\ ReturnedZero(2)
  /\ search.stages[3].status = "ok" /\ search.stages[3].matches # <<>>
  /\ search.retrieved # <<>>

\* C18: a failed query of stage 1 or of stage 2 counts as zero matches and
\* the next stage is attempted: stage 2 after a stage-1 error, a query
\* without filter after a stage-2 error; the error of stage 1 or 2 never
\* reaches the caller.
C18_StageErrorAdvances ==
  /\ search.stages[1].status = "error" => Queried(2)
  /\ search.stages[2].status = "error" => Queried(3) \/ CatchQueried
  /\ search.pc = "threw" /\ search.error = "query" =>
       search.stages[3].status = "error" \/ search.catchStage.status = "error"

\* The key elements of the scenes of an aggregated result.
VisualKeyElements(result) ==
  UNION { SeqRange(result.metadata.visualContent[i].keyElements) :
            i \in DOMAIN result.metadata.visualContent }

\* The names of the topics of an aggregated result.
TopicNames(result) ==
  { result.metadata.topics[i].name : i \in DOMAIN result.metadata.topics }

\* The visual-element hints of the query found among the key elements.
VisualHits(result, enhancedQuery) ==
  Cardinality({ i \in DOMAIN enhancedQuery.visualElements :
                  enhancedQuery.visualElements[i] \in VisualKeyElements(result) })

\* The topics of the query that are topic names of the result.
TopicHits(result, enhancedQuery) ==
  Cardinality({ i \in DOMAIN enhancedQuery.topics :
                  enhancedQuery.topics[i] \in TopicNames(result) })

\* C23: the re-ranked score of an aggregated result is its base score raised
\* by 0.2 for every keyword hit, by 0.15 for every visual-element hint of the
\* query found among the result's visual key elements, and by 0.1 for every
\* topic of the query equal to one of the result's topic names.
C23_ReRankMatchCounts ==
  search.pc = "returned" =>
    \A n \in DOMAIN search.result :
      \E m \in DOMAIN search.retrieved :
        /\ search.retrieved[m].id = search.result[n].id
        /\ search.result[n].score =
             search.retrieved[m].score
               * (100 + 20 * KeywordMatches(search.retrieved[m], search.enhanced)
                      + 15 * VisualHits(search.retrieved[m], search.enhanced)
                      + 10 * TopicHits(search.retrieved[m], search.enhanced))

\* The matches the result of a search was aggregated from.
AggregatedMatches ==
  IF NonEmptyStages = {} THEN <<>> ELSE StageResults[FirstNonEmpty].matches

\* The audioContent of the matched chunks of a video.
GroupAudio(videoId) ==
  { AggregatedMatches[i].metadata.audioContent :
      i \in { j \in DOMAIN AggregatedMatches :
                AggregatedMatches[j].metadata.videoId = videoId } }

\* C24: the aggregated audio of a video holds every speech line of the
\* video's matched chunks and the union of their music and sound effects:
\* a later chunk without speech does not remove the speech of an earlier one.
C24_AudioMerge ==
  search.pc = "returned" =>
    \A n \in DOMAIN search.retrieved :
      LET audio == search.retrieved[n].metadata.audioContent
          group == GroupAudio(search.retrieved[n].id)
      IN /\ SeqRange(audio.speech) = { c.speech : c \in group } \ { <<>> }
         /\ audio.music = UNION { c.music : c \in group }
         /\ audio.soundEffects = UNION { c.soundEffects : c \in group }

\* C29: the first entry of relevantChunks of every aggregated result has
\* the score of the result, the best score of the video's matched chunks.
C29_RelevantChunksKeepBest ==
  search.pc = "returned" =>
    \A n \in DOMAIN search.retrieved :
      LET result == search.retrieved[n]
      IN /\ result.metadata.relevantChunks # <<>>
         /\ result.metadata.relevantChunks[1].score = result.score

(***************************************************************************)
(* Properties of the embedding client.                                     *)
(***************************************************************************)

\* The requests admitted at the clock values of the limiter's current window.
AdmittedInWindow ==
  SumSeq([i \in 1..coolDownPeriod |->
            IF embed.lastRequestTime + i - 1 \in DOMAIN embed.admitted
              THEN embed.admitted[embed.lastRequestTime + i - 1] ELSE 0])

\* C8 as stated: the requests admitted within the window that starts at
\* lastRequestTime and lasts coolDownPeriod never exceed maxRequestsPerMinute.
C8_RateCeiling == AdmittedInWindow <= maxRequestsPerMinute

\* A step in which caller c calls the provider.
ProviderCall(c) ==
  embed.callers[c].pc # "request" /\ embed'.callers[c].pc = "request"

\* What C22 says of the calls, the waits and the result of one
\* generateEmbedding call, whatever makes it fail.
EmbedRetrySteps(c) ==
  LET caller == embed.callers[c]
      after == embed'.callers[c]
  IN /\ ProviderCall(c) =>
          /\ after.attempt \in 1..maxRetries
          /\ caller.pc \in {"tokenCheck", "retryWait", "blocked"}
          /\ after.attempt = IF caller.pc = "blocked" THEN caller.attempt
                                                      ELSE caller.attempt + 1
          \* through handleRateLimit: the request is counted
          /\ embed'.requestCount \in 1..maxRequestsPerMinute
          /\ embed'.admitted[now] = embed.admitted[now] + 1
     /\ caller.pc = "done" => after.pc = "done"
     /\ caller.pc = "failed" => after.pc = "failed"
     /\ caller.pc = "request" /\ after.pc # "request" =>
          \/ after.pc = "done"
          \/ /\ caller.attempt < maxRetries
             /\ after.pc = "retryWait"
             /\ after.wakeAt = now + retryDelay * caller.attempt
          \/ /\ caller.attempt = maxRetries
             /\ after.pc = "failed"
     /\ caller.pc = "retryWait" /\ after.pc # "retryWait" =>
          /\ now >= caller.wakeAt
          /\ after.pc \in {"request", "blocked"}

\* C22 as stated: at most maxRetries provider calls for one text, each after
\* the rate limiter; the first success ends the call; retryDelay * attempt is
\* waited after a failed attempt but the last; the call fails only after
\* maxRetries failed provider calls.
C22_EmbeddingRetry ==
  [][\A c \in 1..EmbedCallers :
       /\ EmbedRetrySteps(c)
       /\ embed.callers[c].pc # "failed" /\ embed'.callers[c].pc = "failed" =>
            embed.callers[c].pc = "request" /\ embed.callers[c].attempt = maxRetries]_vars

\* C22 amended: the call fails after maxRetries failed provider calls, or
\* at the token check before any provider call.
C22_EmbeddingRetryOrTokenLimit ==
  [][\A c \in 1..EmbedCallers :
       /\ EmbedRetrySteps(c)
       /\ embed.callers[c].pc # "failed" /\ embed'.callers[c].pc = "failed" =>
            \/ embed.callers[c].pc = "request" /\ embed.callers[c].attempt = maxRetries
            \/ embed.callers[c].pc = "tokenCheck" /\ embed.callers[c].attempt = 0]_vars

\* One call failed after maxRetries provider calls, another returned the
\* vector of its second call.
C22_Witness ==
  \E c, e \in 1..EmbedCallers :
    /\ embed.callers[c].pc = "failed" /\ embed.callers[c].attempt = maxRetries
    /\ embed.callers[e].pc = "done" /\ embed.callers[e].attempt = 2

(***************************************************************************)
(* Properties of the chunk builder.                                        *)
(***************************************************************************)

RECURSIVE Concat(_)
Concat(chunks) == IF chunks = <<>> THEN <<>> ELSE Head(chunks) \o Concat(Tail(chunks))

\* C11 as stated: the serialized size of every visual sub-chunk is within the
\* budget.
C11_ChunkBudget ==
  chunker.pc = "done" =>
    \A i \in DOMAIN chunker.visualChunks :
      SerializedSize(chunker.visualChunks[i]) <= VisualBudget

\* C12: the sub-chunks, concatenated in index order, are the visual content,
\* and no sub-chunk is empty.
C12_ChunkCoverage ==
  chunker.pc = "done" =>
    /\ Concat(chunker.visualChunks) = chunker.visualContent
    /\ \A i \in DOMAIN chunker.visualChunks : chunker.visualChunks[i] # <<>>

\* Three scenes were split into two sub-chunks, one of them of two scenes.
C12_Witness ==
  /\ chunker.pc = "done"
  /\ Len(chunker.visualContent) = 3
  /\ Len(chunker.visualChunks) = 2

(***************************************************************************)
(* Properties of the re-ranker.                                            *)
(***************************************************************************)

\* C13: reRankResults returns at most 5 results, each an input result with
\* its hybrid score, no input result twice, in descending order of hybrid
\* score; so a search returns at most min(topK, 5) results.
C13_ReRankCap ==
  search.pc = "returned" =>
    /\ Len(search.result) <= RerankLimit
    /\ Len(search.result) <= Min(search.topK, RerankLimit)
    /\ Len(search.result) = Min(Len(search.retrieved), RerankLimit)
    /\ \A n \in DOMAIN search.result :
         \E m \in DOMAIN search.retrieved :
           search.result[n] =
             [search.retrieved[m] EXCEPT
                !.score = CalculateHybridScore(search.retrieved[m], search.enhanced)]
    /\ \A n, m \in DOMAIN search.result :
         /\ n < m => search.result[n].score >= search.result[m].score
         /\ search.result[n].id = search.result[m].id => n = m
    /\ \A m \in DOMAIN search.retrieved :
         (\A n \in DOMAIN search.result : search.result[n].id # search.retrieved[m].id)
           => \A n \in DOMAIN search.result :
                search.result[n].score >=
                  CalculateHybridScore(search.retrieved[m], search.enhanced)

\* Six results went in, five came out, and the first one out was not the
\* first one in.
C13_Witness ==
  /\ search.pc = "returned"
  /\ Len(search.retrieved) = 6
  /\ Len(search.result) = 5
  /\ search.result[1].id # search.retrieved[1].id


(***************************************************************************)
(* Properties of the aggregator.                                           *)
(***************************************************************************)

\* The matched chunks of a video in the order the aggregator reads them.
ChunksOf(videoId) ==
  LET matches == search.stages[3].matches
      group == SelectSeq(matches, LAMBDA m : m.metadata.videoId = videoId)
  IN SortByKeys(group, [i \in DOMAIN group |-> group[i].metadata.sequenceNumber])

\* The visual entries of these chunks, in reading order, each with the
\* sequenceNumber of its chunk.
SeenVisual(videoId) ==
  LET entries == VisualEntries(ChunksOf(videoId))
  IN [i \in DOMAIN entries |-> entries[i].value]

ScenePair(v) == <<v.timestamp, v.scene>>

\* C14: for the chunks of one video the aggregated visualContent holds
\* exactly one entry per distinct (timestamp, scene) pair, the entry kept is
\* the last one seen, and it stands where the pair first appeared.
C14_VisualDedup ==
  search.pc = "returned" =>
    \A r \in DOMAIN search.retrieved :
      LET out == search.retrieved[r].metadata.visualContent
          seen == SeenVisual(search.retrieved[r].id)
          firstOf(p) == CHOOSE i \in DOMAIN seen :
                          /\ ScenePair(seen[i]) = p
                          /\ \A j \in 1..(i - 1) : ScenePair(seen[j]) # p
          lastOf(p) == CHOOSE i \in DOMAIN seen :
                         /\ ScenePair(seen[i]) = p
                         /\ \A j \in (i + 1)..Len(seen) : ScenePair(seen[j]) # p
      IN /\ { ScenePair(out[i]) : i \in DOMAIN out }
              = { ScenePair(seen[i]) : i \in DOMAIN seen }
         /\ \A i, j \in DOMAIN out : i < j => ScenePair(out[i]) # ScenePair(out[j])
         /\ \A i \in DOMAIN out : out[i] = seen[lastOf(ScenePair(out[i]))]
         /\ \A i, j \in DOMAIN out :
              i < j => firstOf(ScenePair(out[i])) < firstOf(ScenePair(out[j]))


\* The scores of the matched chunks of a video.
ScoresOf(videoId) ==
  LET chunks == ChunksOf(videoId) IN [i \in DOMAIN chunks |-> chunks[i].score]

MatchedVideoIds ==
  { search.stages[3].matches[i].metadata.videoId :
      i \in DOMAIN search.stages[3].matches }

\* C15: aggregateVideoChunks returns at most topK results, one per distinct
\* videoId of the matches and no two with the same id, ordered by score
\* descending; a result's score is the maximum and its avgScore
\* (scoreSum / chunkCount) the mean of the scores of the video's matched
\* chunks, so avgScore <= score; a video cut by topK scores no better than
\* a video kept.
C15_AggregatorShape ==
  search.pc = "returned" =>
    LET out == search.retrieved
        ids == { out[i].id : i \in DOMAIN out }
    IN /\ Len(out) <= search.topK
       /\ Len(out) = Min(search.topK, Cardinality(MatchedVideoIds))
       /\ ids \subseteq MatchedVideoIds
       /\ \A i, j \in DOMAIN out : i < j => out[i].id # out[j].id
       /\ \A i, j \in DOMAIN out : i < j => out[i].score >= out[j].score
       /\ \A i \in DOMAIN out :
            LET scores == ScoresOf(out[i].id)
            IN /\ out[i].score \in SeqRange(scores)
               /\ \A n \in DOMAIN scores : scores[n] <= out[i].score
               /\ out[i].chunkCount = Len(scores)
               /\ out[i].scoreSum = SumSeq(scores)
               /\ out[i].scoreSum <= out[i].score * out[i].chunkCount
       /\ \A v \in MatchedVideoIds \ ids :
            \A i \in DOMAIN out :
              \A n \in DOMAIN ScoresOf(v) : ScoresOf(v)[n] <= out[i].score

\* Three matches of two videos with topK = 1: one result, of the video with
\* two matched chunks, whose mean score is below its maximum.
C15_Witness ==
  /\ search.pc = "returned"
  /\ search.topK = 1
  /\ Cardinality(MatchedVideoIds) = 2
  /\ Len(search.retrieved) = 1
  /\ search.retrieved[1].chunkCount = 2
  /\ search.retrieved[1].scoreSum < search.retrieved[1].score * 2


(***************************************************************************)
(* Properties of QueueService.getInstance.                                 *)
(***************************************************************************)

\* C30: however getInstance calls interleave, initialize runs at most once,
\* one QueueService is constructed, and every caller that gets an instance
\* gets that one, initialised.
C30_SingletonInitialisation ==
  /\ singleton.initialized <= 1
  /\ singleton.created <= 1
  /\ \A c \in 1..GetCallers :
       singleton.callers[c].pc = "returned" =>
         /\ singleton.callers[c].got # 0
         /\ singleton.callers[c].got = singleton.instance
         /\ \A e \in 1..GetCallers :
              singleton.callers[e].pc = "returned" =>
                singleton.callers[e].got = singleton.callers[c].got

\* Three callers got the instance: the one that started the initialisation,
\* one that called while it was in progress and one that called after it.
C30_Witness ==
  \E c, e, f \in 1..GetCallers :
    /\ singleton.callers[c].pc = "returned"
    /\ singleton.callers[c].calledWhile = "null"
    /\ singleton.callers[e].pc = "returned"
    /\ singleton.callers[e].calledWhile = "pending"
    /\ singleton.callers[f].pc = "returned"
    /\ singleton.callers[f].calledWhile = "resolved"

====
